---- MODULE Spec2Model ----
(***************************************************************************)
(* render-bench: the city builder (src/src/citybuilder.rs).                *)
(*                                                                         *)
(* One controller thread calls CityBuilder::start and CityBuilder::stop;   *)
(* start spawns worker threads that each execute CityBuilder::run.  The    *)
(* threads share CityState behind one Mutex and one AtomicBool stop flag.  *)
(* A Rust panic ends the thread it happens in; a panic while a MutexGuard  *)
(* is alive poisons the Mutex, and lock().unwrap() / join().unwrap() panic *)
(* on a poisoned Mutex / a panicked thread.                                *)
(***************************************************************************)
EXTENDS Integers, Sequences, FiniteSets, TLC

(***************************************************************************)
(* Bounds of the model.                                                    *)
(***************************************************************************)
\* Worker thread ids are 1..MaxWorkers: the workers spawned by all calls of
\* start together.
MaxWorkers == 2
\* Calls of start explored on one builder.
MaxStarts == 2
\* The per-worker count of completed add/hold/delete cycles saturates here.
MaxCycles == 2
\* Sleep slices explored per hold phase (the code's loop runs HOLD_SLICES).
MaxSlices == 2

(***************************************************************************)
(* Program constants.                                                      *)
(***************************************************************************)
\* assert!(thread_count < 100)
SanityLimit == 100
\* for i in 0..100 { ... sleep ... }
HOLD_SLICES == 100
\* const BLDG_ROWS: usize = 25
BLDG_ROWS == 25

\* The calling thread of start and stop; workers are 1..MaxWorkers.
MainThread == 0
Workers == 1..MaxWorkers

\* Slices of one hold phase: the code's count, capped by the model's bound.
SliceLimit == IF HOLD_SLICES < MaxSlices THEN HOLD_SLICES ELSE MaxSlices

(***************************************************************************)
(* Inputs.                                                                 *)
(***************************************************************************)
\* viewer.rs CITY_TEXTURES: the semantic keys of the descriptor list, in order.
CITY_TEXTURES == <<"brick", "ground", "roof", "floor", "ceiling", "stone">>

RECURSIVE Without(_, _)
Without(s, k) ==
    IF s = <<>> THEN <<>>
    ELSE IF Head(s) = k THEN Without(Tail(s), k)
    ELSE <<Head(s)>> \o Without(Tail(s), k)

\* CityParams.texture_files as the caller may supply it: the viewer's list,
\* and lists that lack one key.
DescriptorLists ==
    { CITY_TEXTURES,
      Without(CITY_TEXTURES, "ground"),
      Without(CITY_TEXTURES, "stone"),
      Without(CITY_TEXTURES, "roof") }

\* thread_count arguments of start: accepted ones, and the first rejected one.
ThreadCounts == (0..MaxWorkers) \cup {SanityLimit, SanityLimit + 1}

Range(s) == { s[i] : i \in DOMAIN s }

(***************************************************************************)
(* CityTextures::new_from_map: the fields in the order the struct          *)
(* expression evaluates them, and the key each is looked up under.         *)
(***************************************************************************)
CityTextureFields == <<"stone", "brick", "floor", "ceiling", "roof", "ground">>

LookupKey(field) ==
    CASE field = "stone"   -> "stone"
      [] field = "brick"   -> "brick"
      [] field = "floor"   -> "floor"
      [] field = "ceiling" -> "ceiling"
      [] field = "roof"    -> "roof"
      [] field = "ground"  -> "roof"

(***************************************************************************)
(* Object counts of the draw functions (each create_simple_block is one    *)
(* object).                                                                *)
(***************************************************************************)
\* draw_wall_section: the column, plus the blocks of the wall kind.
WallSectionCount(kind) ==
    CASE kind = "None"   -> 1
      [] kind = "Solid"  -> 2
      [] kind = "Door"   -> 2
      [] kind = "Window" -> 3

RECURSIVE FaceCount(_)
FaceCount(bays) ==
    IF bays = <<>> THEN 0
    ELSE WallSectionCount(Head(bays)) + FaceCount(Tail(bays))

\* draw_one_story: front, right, back (front again), left (side again), then
\* draw_floor_and_ceiling.
StoryCount(wall_spec) ==
    FaceCount(wall_spec[1]) + FaceCount(wall_spec[2])
    + FaceCount(wall_spec[1]) + FaceCount(wall_spec[2]) + 2

RECURSIVE StoriesCount(_)
StoriesCount(wall_specs) ==
    IF wall_specs = <<>> THEN 0
    ELSE StoryCount(Head(wall_specs)) + StoriesCount(Tail(wall_specs))

\* draw_building: nothing for zero stories, else the stories and draw_roof.
BuildingCount(wall_specs) ==
    IF wall_specs = <<>> THEN 0 ELSE StoriesCount(wall_specs) + 5

two_story_building ==
    << << <<"Door", "Window", "Solid", "Solid">>, <<"Window", "Solid">> >>,
       << <<"Window", "Window", "Window", "Window">>, <<"Window", "Solid">> >> >>

\* draw_building_grid over the rows lo..hi-1: BLDG_ROWS buildings per row.
GridCount(lo, hi) ==
    (hi - lo) * BLDG_ROWS * BuildingCount(two_story_building)

PermanentCount == GridCount(0, BLDG_ROWS \div 2)
TransientCount == GridCount(BLDG_ROWS \div 2, BLDG_ROWS)

(***************************************************************************)
(* solids.rs.  An f32 is an integer count of 1/FixedOne, which holds the    *)
(* program's decimal constants (0.1, 0.2, 0.45, 0.55) and the binary        *)
(* fractions of the inputs explored exactly; f32 rounding is below it.      *)
(* A Vec3 or Vec2 is a tuple.                                               *)
(***************************************************************************)
FixedOne == 1600

Abs(x) == IF x < 0 THEN -x ELSE x
Min(a, b) == IF a < b THEN a ELSE b

\* a * b of two f32
Mul(a, b) == (a * b) \div FixedOne

VecAdd(a, b) == [i \in DOMAIN a |-> a[i] + b[i]]
VecScale(a, k) == [i \in DOMAIN a |-> Mul(a[i], k)]

UNIT_CUBE_VERTS ==
    LET h == FixedOne \div 2 IN
    << <<-h, -h, h>>, <<h, -h, h>>, <<h, h, h>>, <<-h, h, h>>,        \* far
       <<-h, h, -h>>, <<h, h, -h>>, <<h, -h, -h>>, <<-h, -h, -h>>,    \* near
       <<h, -h, -h>>, <<h, h, -h>>, <<h, h, h>>, <<h, -h, h>>,        \* right
       <<-h, -h, h>>, <<-h, h, h>>, <<-h, h, -h>>, <<-h, -h, -h>>,    \* left
       <<h, h, -h>>, <<-h, h, -h>>, <<-h, h, h>>, <<h, h, h>>,        \* top
       <<h, -h, h>>, <<-h, -h, h>>, <<-h, -h, -h>>, <<h, -h, -h>> >>  \* bottom

UNIT_CUBE_FACE_NORMALS ==
    LET u == FixedOne IN
    << <<0, 0, u>>, <<0, 0, u>>, <<0, 0, u>>, <<0, 0, u>>,
       <<0, 0, -u>>, <<0, 0, -u>>, <<0, 0, -u>>, <<0, 0, -u>>,
       <<u, 0, 0>>, <<u, 0, 0>>, <<u, 0, 0>>, <<u, 0, 0>>,
       <<-u, 0, 0>>, <<-u, 0, 0>>, <<-u, 0, 0>>, <<-u, 0, 0>>,
       <<0, u, 0>>, <<0, u, 0>>, <<0, u, 0>>, <<0, u, 0>>,
       <<0, -u, 0>>, <<0, -u, 0>>, <<0, -u, 0>>, <<0, -u, 0>> >>

\* The indices are u32 vertex numbers, counted from 0.
UNIT_CUBE_INDICES ==
    << 0, 1, 2, 2, 3, 0,
       4, 5, 6, 6, 7, 4,
       8, 9, 10, 10, 11, 8,
       12, 13, 14, 14, 15, 12,
       16, 17, 18, 18, 19, 16,
       20, 21, 22, 22, 23, 20 >>

\* Mutant: the first axis wins its ties.
norm_to_axis_ties_to_x(normal) ==
    IF Abs(normal[1]) >= Abs(normal[2]) /\ Abs(normal[1]) >= Abs(normal[3]) THEN 0
    ELSE IF Abs(normal[2]) >= Abs(normal[3]) THEN 1
    ELSE 2

\* The axes are 0, 1, 2 for X, Y, Z; the tuples are indexed from 1.
norm_to_axis(normal) ==
    IF Abs(normal[1]) > Abs(normal[2]) /\ Abs(normal[1]) > Abs(normal[3]) THEN 0
    ELSE IF Abs(normal[2]) > Abs(normal[3]) THEN 1
    ELSE 2

\* calc_single_uv; negative is normal.is_sign_negative().
\* MESH_UV_OFFSET is 0.25 and MESH_UV_SCALE_FACTOR is 2.0.
calc_single_uv(pos, negative) ==
    LET sign == IF negative THEN -FixedOne ELSE FixedOne
        offset == FixedOne \div 4
        factor == 2 * FixedOne
    IN << Mul(Mul(pos[1], sign) + offset, factor),
          Mul(pos[2] + offset, factor) >>

\* Mutant: the Z axis takes the sign of normal[2] as the other axes do.
calc_uv_same_sign(axis, vertex, normal) ==
    CASE axis = 0 -> calc_single_uv(<<vertex[3], vertex[2]>>, normal[1] < 0)
      [] axis = 1 -> calc_single_uv(<<vertex[1], vertex[3]>>, normal[2] < 0)
      [] axis = 2 -> calc_single_uv(<<vertex[1], vertex[2]>>, normal[3] < 0)

\* calc_uv.  For axis 2 the argument is -normal[2], whose sign bit is set when
\* normal[2] is positive or is (positive) zero.
calc_uv(axis, vertex, normal) ==
    CASE axis = 0 -> calc_single_uv(<<vertex[3], vertex[2]>>, normal[1] < 0)
      [] axis = 1 -> calc_single_uv(<<vertex[1], vertex[3]>>, normal[2] < 0)
      [] axis = 2 -> calc_single_uv(<<vertex[1], vertex[2]>>, normal[3] >= 0)

\* calc_uvs: zip stops at the shorter of the two.
calc_uvs(vertex_positions, normals, texture_scale) ==
    [i \in 1..Min(Len(vertex_positions), Len(normals)) |->
        VecScale(calc_uv(norm_to_axis(normals[i]), vertex_positions[i], normals[i]),
                 texture_scale)]

\* MeshBuilder::build().unwrap(): the builder's validation, and the winding
\* flip it applies for one of the two handednesses (flip says whether this
\* build applies it to Handedness::Left).
MeshBuilderBuild(positions, indices, normals, uvs, flip) ==
    IF \/ Len(normals) # Len(positions)
       \/ Len(uvs) # Len(positions)
       \/ Len(indices) % 3 # 0
       \/ \E k \in DOMAIN indices : indices[k] >= Len(positions)
      THEN [ built |-> FALSE ]      \* Err: unwrap panics
      ELSE [ built |-> TRUE,
             vertex_positions |-> positions,
             vertex_normals |-> normals,
             vertex_uv0 |-> uvs,
             indices |-> IF flip
                           THEN [k \in DOMAIN indices |->
                                   indices[CASE k % 3 = 1 -> k + 2
                                             [] k % 3 = 2 -> k
                                             [] k % 3 = 0 -> k - 2]]
                           ELSE indices ]

\* Mutant: the normals are left out of what is handed to calc_uvs.
create_mesh_no_uvs(scale, offset, texture_scale, flip) ==
    LET vertex_positions ==
            [i \in DOMAIN UNIT_CUBE_VERTS |->
                VecAdd([c \in 1..3 |-> Mul(scale[c], UNIT_CUBE_VERTS[i][c])], offset)]
        normals == UNIT_CUBE_FACE_NORMALS
        uvs == calc_uvs(vertex_positions, <<>>, texture_scale)
    IN MeshBuilderBuild(vertex_positions, UNIT_CUBE_INDICES, normals, uvs, flip)

create_mesh(scale, offset, texture_scale, flip) ==
    LET vertex_positions ==
            [i \in DOMAIN UNIT_CUBE_VERTS |->
                VecAdd([c \in 1..3 |-> Mul(scale[c], UNIT_CUBE_VERTS[i][c])], offset)]
        normals == UNIT_CUBE_FACE_NORMALS
        uvs == calc_uvs(vertex_positions, normals, texture_scale)
    IN MeshBuilderBuild(vertex_positions, UNIT_CUBE_INDICES, normals, uvs, flip)

\* create_simple_block: the Object of a new mesh, a material of the texture
\* set given, and the transform of rot and pos.
create_simple_block(scale, offset, pos, rot, texture_info, flip) ==
    [ mesh |-> create_mesh(scale, offset, texture_info.texture_scale, flip),
      material |-> texture_info.label,
      transform |-> [rot |-> rot, pos |-> pos] ]

(***************************************************************************)
(* The draw functions of citybuilder.rs.  A Quat is a rotation about Y by a *)
(* count of quarter turns of -90 degrees, the only rotations the program    *)
(* makes.                                                                   *)
(***************************************************************************)
\* rot * v
Rotate(rot, v) ==
    CASE rot % 4 = 0 -> v
      [] rot % 4 = 1 -> <<-v[3], v[2], v[1]>>
      [] rot % 4 = 2 -> <<-v[1], v[2], -v[3]>>
      [] rot % 4 = 3 -> <<v[3], v[2], -v[1]>>

\* A TextureSet (albedo, normal, scale): the key its two textures were made
\* from, and the scale, 0.25 for every entry of CITY_TEXTURES.
TextureSet(key) == [label |-> key, texture_scale |-> FixedOne \div 4]

\* The CityTextures that new_from_map returns when every lookup succeeds.
CityTexturesBuilt == [f \in Range(CityTextureFields) |-> TextureSet(LookupKey(f))]

RECURSIVE Flatten(_)
Flatten(seqs) ==
    IF seqs = <<>> THEN <<>> ELSE Head(seqs) \o Flatten(Tail(seqs))

\* Mutant: the lintel of a door and the top band of a window are set on the
\* ground.
draw_wall_section_low(wall_kind, size, pos, rot, textures, flip) ==
    LET width == size[1]
        thickness == size[3]
        height == size[2]
        column_thickness == Mul(thickness, 2 * FixedOne)
        wall_width == width - column_thickness
        mid == (column_thickness + wall_width) \div 2
        column == create_simple_block(<<column_thickness, height, column_thickness>>,
                                      <<0, height \div 2, 0>>, pos, rot,
                                      textures.stone, flip)
        brick(block_height, center) ==
            create_simple_block(<<wall_width, block_height, thickness>>,
                                <<mid, center, 0>>, pos, rot, textures.brick, flip)
    IN CASE wall_kind = "None"   -> << column >>
         [] wall_kind = "Solid"  -> << column, brick(height, height \div 2) >>
         [] wall_kind = "Door"   ->
              LET opening_height == Mul(height, (3 * FixedOne) \div 4)
                  top_height == height - opening_height
              IN << column, brick(top_height, top_height \div 2) >>
         [] wall_kind = "Window" ->
              LET opening_height == Mul(height, FixedOne \div 2)
                  top_height == Mul(height, FixedOne \div 4)
                  bottom_height == height - opening_height - top_height
              IN << column,
                    brick(top_height, top_height \div 2),
                    brick(bottom_height, bottom_height \div 2) >>

\* Mutant: the column is as thick as the wall.
draw_wall_section_thin_column(wall_kind, size, pos, rot, textures, flip) ==
    LET width == size[1]
        thickness == size[3]
        height == size[2]
        column_thickness == thickness
        wall_width == width - column_thickness
        mid == (column_thickness + wall_width) \div 2
        column == create_simple_block(<<column_thickness, height, column_thickness>>,
                                      <<0, height \div 2, 0>>, pos, rot,
                                      textures.stone, flip)
        brick(block_height, center) ==
            create_simple_block(<<wall_width, block_height, thickness>>,
                                <<mid, center, 0>>, pos, rot, textures.brick, flip)
    IN CASE wall_kind = "None"   -> << column >>
         [] wall_kind = "Solid"  -> << column, brick(height, height \div 2) >>
         [] wall_kind = "Door"   ->
              LET opening_height == Mul(height, (3 * FixedOne) \div 4)
                  top_height == height - opening_height
              IN << column, brick(top_height, opening_height + top_height \div 2) >>
         [] wall_kind = "Window" ->
              LET opening_height == Mul(height, FixedOne \div 2)
                  top_height == Mul(height, FixedOne \div 4)
                  bottom_height == height - opening_height - top_height
              IN << column,
                    brick(top_height,
                          bottom_height + opening_height + top_height \div 2),
                    brick(bottom_height, bottom_height \div 2) >>

\* draw_wall_section: the column, then the blocks of the wall kind.
draw_wall_section(wall_kind, size, pos, rot, textures, flip) ==
    LET width == size[1]
        thickness == size[3]
        height == size[2]
        column_thickness == Mul(thickness, 2 * FixedOne)
        wall_width == width - column_thickness
        mid == (column_thickness + wall_width) \div 2
        column == create_simple_block(<<column_thickness, height, column_thickness>>,
                                      <<0, height \div 2, 0>>, pos, rot,
                                      textures.stone, flip)
        brick(block_height, center) ==
            create_simple_block(<<wall_width, block_height, thickness>>,
                                <<mid, center, 0>>, pos, rot, textures.brick, flip)
    IN CASE wall_kind = "None"   -> << column >>
         [] wall_kind = "Solid"  -> << column, brick(height, height \div 2) >>
         [] wall_kind = "Door"   ->
              LET opening_height == Mul(height, (3 * FixedOne) \div 4)
                  top_height == height - opening_height
              IN << column, brick(top_height, opening_height + top_height \div 2) >>
         [] wall_kind = "Window" ->
              LET opening_height == Mul(height, FixedOne \div 2)
                  top_height == Mul(height, FixedOne \div 4)
                  bottom_height == height - opening_height - top_height
              IN << column,
                    brick(top_height,
                          bottom_height + opening_height + top_height \div 2),
                    brick(bottom_height, bottom_height \div 2) >>

\* draw_floor_and_ceiling: two slabs of the same size.
draw_floor_and_ceiling(height, size, pos, rot, textures, flip) ==
    LET thickness == size[2]
        center == VecScale(size, FixedOne \div 2)
    IN << create_simple_block(size,
              VecAdd(center, <<0, -Mul(thickness, (45 * FixedOne) \div 100), 0>>),
              pos, rot, textures.floor, flip),
          create_simple_block(size,
              VecAdd(center, <<0, height - Mul(thickness, (55 * FixedOne) \div 100), 0>>),
              pos, rot, textures.ceiling, flip) >>

\* Mutant: the back face is drawn from the side bays.
draw_one_story_back_from_side(wall_spec, size, pos, rot, textures, flip) ==
    LET width == size[1]
        height == size[2]
        front == wall_spec[1]
        side == wall_spec[2]
        front_width == Len(front) * width
        side_width == Len(side) * width
        draw_one_face(startpos, itemoffset, itemrot, kind) ==
            draw_wall_section(kind, size,
                              VecAdd(startpos, Rotate(itemrot + rot, itemoffset)),
                              (itemrot + rot) % 4, textures, flip)
        face(bays, startpos, itemrot) ==
            Flatten([i \in DOMAIN bays |->
                       draw_one_face(startpos, <<(i - 1) * width, 0, 0>>,
                                     itemrot, bays[i])])
        floor_size == <<front_width, FixedOne \div 10, side_width>>
    IN face(front, pos, 0)
       \o face(side, VecAdd(pos, Rotate(rot, <<front_width, 0, 0>>)), 1)
       \o face(side, VecAdd(pos, Rotate(rot, <<front_width, 0, side_width>>)), 2)
       \o face(side, VecAdd(pos, Rotate(rot, <<0, 0, side_width>>)), 3)
       \o draw_floor_and_ceiling(height, floor_size, pos, rot, textures, flip)

\* Mutant: the back face starts at the left corner.
draw_one_story_back_from_left(wall_spec, size, pos, rot, textures, flip) ==
    LET width == size[1]
        height == size[2]
        front == wall_spec[1]
        side == wall_spec[2]
        front_width == Len(front) * width
        side_width == Len(side) * width
        draw_one_face(startpos, itemoffset, itemrot, kind) ==
            draw_wall_section(kind, size,
                              VecAdd(startpos, Rotate(itemrot + rot, itemoffset)),
                              (itemrot + rot) % 4, textures, flip)
        face(bays, startpos, itemrot) ==
            Flatten([i \in DOMAIN bays |->
                       draw_one_face(startpos, <<(i - 1) * width, 0, 0>>,
                                     itemrot, bays[i])])
        floor_size == <<front_width, FixedOne \div 10, side_width>>
    IN face(front, pos, 0)
       \o face(side, VecAdd(pos, Rotate(rot, <<front_width, 0, 0>>)), 1)
       \o face(front, VecAdd(pos, Rotate(rot, <<0, 0, side_width>>)), 2)
       \o face(side, VecAdd(pos, Rotate(rot, <<0, 0, side_width>>)), 3)
       \o draw_floor_and_ceiling(height, floor_size, pos, rot, textures, flip)

\* draw_one_story: the front, right, back and left faces, each a row of wall
\* sections, then the floor and the ceiling.
draw_one_story(wall_spec, size, pos, rot, textures, flip) ==
    LET width == size[1]
        height == size[2]
        front == wall_spec[1]
        side == wall_spec[2]
        front_width == Len(front) * width
        side_width == Len(side) * width
        draw_one_face(startpos, itemoffset, itemrot, kind) ==
            draw_wall_section(kind, size,
                              VecAdd(startpos, Rotate(itemrot + rot, itemoffset)),
                              (itemrot + rot) % 4, textures, flip)
        face(bays, startpos, itemrot) ==
            Flatten([i \in DOMAIN bays |->
                       draw_one_face(startpos, <<(i - 1) * width, 0, 0>>,
                                     itemrot, bays[i])])
        floor_size == <<front_width, FixedOne \div 10, side_width>>
    IN face(front, pos, 0)
       \o face(side, VecAdd(pos, Rotate(rot, <<front_width, 0, 0>>)), 1)
       \o face(front, VecAdd(pos, Rotate(rot, <<front_width, 0, side_width>>)), 2)
       \o face(side, VecAdd(pos, Rotate(rot, <<0, 0, side_width>>)), 3)
       \o draw_floor_and_ceiling(height, floor_size, pos, rot, textures, flip)

VecSub(a, b) == [i \in DOMAIN a |-> a[i] - b[i]]

\* draw_roof: the roof slab, then the parapet strips along the front, the
\* back and the two sides.
draw_roof(height, thickness, size, pos, rot, textures, flip) ==
    LET half == FixedOne \div 2
        center == VecAdd(VecScale(size, half), <<0, height, 0>>)
        across == Mul(size[3] + 2 * thickness, half)
        along == Mul(size[1] + 2 * thickness, half)
    IN << create_simple_block(
              <<size[1] + thickness, Mul(thickness, half), size[3] + thickness>>,
              center, pos, rot, textures.roof, flip),
          create_simple_block(
              <<size[1] + 3 * thickness, thickness, thickness>>,
              VecSub(center, <<0, 0, across>>), pos, rot, textures.stone, flip),
          create_simple_block(
              <<size[1] + 3 * thickness, thickness, thickness>>,
              VecSub(center, <<0, 0, -across>>), pos, rot, textures.stone, flip),
          create_simple_block(
              <<thickness, thickness, size[3] + thickness>>,
              VecSub(center, <<along, 0, 0>>), pos, rot, textures.stone, flip),
          create_simple_block(
              <<thickness, thickness, size[3] + thickness>>,
              VecSub(center, <<-along, 0, 0>>), pos, rot, textures.stone, flip) >>

\* Mutant: the roof is sized by the first story.
draw_building_roof_from_first(wall_specs, size, pos, rot, textures, flip) ==
    IF wall_specs = <<>> THEN <<>>
    ELSE
      LET width == size[1]
          height == size[2]
          thickness == size[3]
          stories == Len(wall_specs)
          front_bays == Len(wall_specs[1][1])
          side_bays == Len(wall_specs[1][2])
          front_width == front_bays * width
          side_width == side_bays * width
          floor_size == <<front_width, FixedOne \div 10, side_width>>
      IN Flatten([n \in DOMAIN wall_specs |->
                    draw_one_story(wall_specs[n], size,
                                   VecAdd(pos, Rotate(rot, <<0, height * (n - 1), 0>>)),
                                   rot, textures, flip)])
         \o draw_roof(height * stories, thickness, floor_size, pos, rot,
                      textures, flip)

\* draw_building: nothing for no stories; else the stories, each at its
\* height, and the roof, sized by the last story.
draw_building(wall_specs, size, pos, rot, textures, flip) ==
    IF wall_specs = <<>> THEN <<>>
    ELSE
      LET width == size[1]
          height == size[2]
          thickness == size[3]
          stories == Len(wall_specs)
          front_bays == Len(wall_specs[stories][1])
          side_bays == Len(wall_specs[stories][2])
          front_width == front_bays * width
          side_width == side_bays * width
          floor_size == <<front_width, FixedOne \div 10, side_width>>
      IN Flatten([n \in DOMAIN wall_specs |->
                    draw_one_story(wall_specs[n], size,
                                   VecAdd(pos, Rotate(rot, <<0, height * (n - 1), 0>>)),
                                   rot, textures, flip)])
         \o draw_roof(height * stories, thickness, floor_size, pos, rot,
                      textures, flip)

\* const BLDG_SPACING: f32 = 10.0
BLDG_SPACING == 10 * FixedOne

\* draw_building_grid: the story_pos of each draw_building call, in call
\* order, for the rows lo..hi-1 (for i in bldg_rows, for j in 0..BLDG_ROWS).
grid_positions(lo, hi) ==
    LET bldg_initialpos ==
            << -Mul(BLDG_SPACING * BLDG_ROWS, FixedOne \div 2), 0,
               -Mul(BLDG_SPACING * BLDG_ROWS, FixedOne \div 2) >>
    IN Flatten([r \in 1..(hi - lo) |->
           [c \in 1..BLDG_ROWS |->
               VecAdd(<<(lo + r - 1) * BLDG_SPACING, 0, (c - 1) * BLDG_SPACING>>,
                      bldg_initialpos)]])

(***************************************************************************)
(* State.                                                                  *)
(***************************************************************************)
VARIABLES
    params,         \* CityParams.texture_files: the keys of the descriptor list
    ctl,            \* where the controller thread is
    panicCause,     \* why the controller thread panicked ("none" if it did not)
    lastCall,       \* the last call the controller made: "none", "start", "stop"
    thread_count,   \* the argument of the last call of start
    starts,         \* calls of start made
    spawned,        \* workers spawned by the last call of start
    output,         \* TextureSetRgba::new_map's local map, as the keys inserted
    threads,        \* CityBuilder.threads
    stop_flag,      \* CityBuilder.stop_flag
    lockHolders,    \* the threads holding a MutexGuard of CityBuilder.state
    poisoned,       \* the Mutex's poison flag
    textures,       \* CityState.textures, as its key set
    objects,        \* CityState.objects: per extend, [owner, batch, count]
    worker,         \* per worker: position in run and run's locals
    texCalls,       \* history: add_texture calls issued, per thread
    slicesAfterStop,\* history: per worker, sleep slices begun with the flag set
    phaseAtStop,    \* history: per worker, its phase when the flag was set
    stopAtSpawn,    \* history: per worker, the stop flag when it was spawned
    call            \* the last call of a draw function made on its own, with its result

vars == << params, ctl, panicCause, lastCall, thread_count, starts, spawned,
           output, threads, stop_flag, lockHolders, poisoned, textures,
           objects, worker, texCalls, slicesAfterStop, phaseAtStop, stopAtSpawn,
           call >>

ctlVars == << ctl, panicCause, lastCall, thread_count, starts, spawned, output >>
histVars == << texCalls, slicesAfterStop, phaseAtStop, stopAtSpawn >>

\* run's locals before anything is built, and after they are dropped.
NoLocals(pc) ==
    [ pc |-> pc,
      city_textures |-> <<>>,        \* CityTextures: per field built, its source key
      ground_handle |-> FALSE,
      permanent_buildings |-> 0,     \* Vec length
      temporary_buildings |-> 0,     \* Vec length
      i |-> 0,                       \* the hold loop's counter
      cycles |-> 0 ]                 \* completed cycles (saturating)

\* CityBuilder::new, CityState::new
Init ==
    /\ params \in DescriptorLists
    /\ ctl = "idle"
    /\ panicCause = "none"
    /\ lastCall = "none"
    /\ thread_count = 0
    /\ starts = 0
    /\ spawned = 0
    /\ output = <<>>
    /\ threads = <<>>
    /\ stop_flag = FALSE
    /\ lockHolders = {}
    /\ poisoned = FALSE
    /\ textures = {}
    /\ objects = <<>>
    /\ worker = [w \in Workers |-> NoLocals("unborn")]
    /\ texCalls = [t \in {MainThread} \cup Workers |-> 0]
    /\ slicesAfterStop = [w \in Workers |-> 0]
    /\ phaseAtStop = [w \in Workers |-> "none"]
    /\ stopAtSpawn = [w \in Workers |-> FALSE]
    /\ call = [fn |-> "none"]

\* The phase of a worker, from its position in run.  A phase lasts until the
\* next one begins: the Idle scope after the delete and the check at the top of
\* the loop belong to the phase that precedes them.
Phase(r) ==
    CASE r.pc \in {"unborn", "run", "conv_get", "conv_add"} -> "Idle"
      [] r.pc = "ground"                -> "TexturesReady"
      [] r.pc = "perm"                  -> "GeneratingPermanent"
      [] r.pc = "looptop"               -> IF r.cycles = 0 THEN "GeneratingPermanent"
                                           ELSE "DeletingTransient"
      [] r.pc = "gen"                   -> "GeneratingTransient"
      [] r.pc \in {"hold1", "sleep1"}   -> "Holding"
      [] r.pc \in {"delete", "hold2", "sleep2"} -> "DeletingTransient"
      [] r.pc = "done"                  -> "Stopped"
      [] r.pc = "panicked"              -> "Faulted"

(***************************************************************************)
(* The Mutex.                                                              *)
(***************************************************************************)
\* Mutant: a lock that excludes nobody.
CanLockUnguarded == TRUE

\* Mutex::lock returns only when no other guard is alive.
CanLock == lockHolders = {}

Unborn == { w \in Workers : worker[w].pc = "unborn" }

\* Mutant: the bound of the assertion off by one.
SanityOkOffByOne(n) == n <= SanityLimit

\* assert!(thread_count < 100)
SanityOk(n) == n < SanityLimit

(***************************************************************************)
(* CityBuilder::start, with init and TextureSetRgba::new_map.              *)
(***************************************************************************)
\* Mutant: the workers are spawned before init has run.
StartSpawnsFirst(n) ==
    /\ ctl = "idle"
    /\ starts < MaxStarts
    /\ n < SanityLimit => n <= Cardinality(Unborn)
    /\ thread_count' = n
    /\ lastCall' = "start"
    /\ starts' = starts + 1
    /\ spawned' = 0
    /\ IF SanityOk(n)
         THEN ctl' = "spawn" /\ panicCause' = panicCause
         ELSE ctl' = "panicked" /\ panicCause' = "assert"
    /\ UNCHANGED << call, params, output, threads, stop_flag, lockHolders, poisoned,
                    textures, objects, worker, histVars >>

\* The call, and the assertion that opens it.
Start(n) ==
    /\ ctl = "idle"
    /\ starts < MaxStarts
    /\ n < SanityLimit => n <= Cardinality(Unborn)   \* worker ids left
    /\ thread_count' = n
    /\ lastCall' = "start"
    /\ starts' = starts + 1
    /\ spawned' = 0
    /\ IF SanityOk(n)
         THEN ctl' = "init_load" /\ panicCause' = panicCause
         ELSE ctl' = "panicked" /\ panicCause' = "assert"
    /\ UNCHANGED << call, params, output, threads, stop_flag, lockHolders, poisoned,
                    textures, objects, worker, histVars >>

\* new_map: one descriptor's two files read and decoded, the entry inserted.
InitLoadOk ==
    /\ ctl = "init_load"
    /\ Len(output) < Len(params)
    /\ output' = Append(output, params[Len(output) + 1])
    /\ UNCHANGED << call, params, ctl, panicCause, lastCall, thread_count, starts,
                    spawned, threads, stop_flag, lockHolders, poisoned,
                    textures, objects, worker, histVars >>

\* Mutant: init takes the guard before it evaluates new_map, so the failure
\* unwinds through the guard.
InitLoadFailUnderGuard ==
    /\ ctl = "init_load"
    /\ Len(output) < Len(params)
    /\ ctl' = "panicked"
    /\ panicCause' = "load"
    /\ output' = <<>>
    /\ poisoned' = TRUE
    /\ UNCHANGED << call, params, lastCall, thread_count, starts, spawned, threads,
                    stop_flag, lockHolders, textures, objects, worker,
                    histVars >>

\* new_map: read_texture(..).unwrap() on a file that cannot be read or decoded.
InitLoadFail ==
    /\ ctl = "init_load"
    /\ Len(output) < Len(params)
    /\ ctl' = "panicked"
    /\ panicCause' = "load"
    /\ output' = <<>>
    /\ UNCHANGED << call, params, lastCall, thread_count, starts, spawned, threads,
                    stop_flag, lockHolders, poisoned, textures, objects,
                    worker, histVars >>

\* init: the assigned value is evaluated first, then self.state.lock().unwrap().
InitLock ==
    /\ ctl = "init_load"
    /\ Len(output) = Len(params)
    /\ CanLock
    /\ IF poisoned
         THEN /\ ctl' = "panicked"
              /\ panicCause' = "poison"
              /\ output' = <<>>
              /\ UNCHANGED lockHolders
         ELSE /\ ctl' = "init_install"
              /\ lockHolders' = lockHolders \cup {MainThread}
              /\ UNCHANGED << panicCause, output >>
    /\ UNCHANGED << call, params, lastCall, thread_count, starts, spawned, threads,
                    stop_flag, poisoned, textures, objects, worker, histVars >>

\* Mutant: init installs the map short of its first entry.
InitInstallPartial ==
    /\ ctl = "init_install"
    /\ textures' = Range(Tail(output))
    /\ output' = <<>>
    /\ lockHolders' = lockHolders \ {MainThread}
    /\ ctl' = "spawn"
    /\ UNCHANGED << call, params, panicCause, lastCall, thread_count, starts,
                    spawned, threads, stop_flag, poisoned, objects, worker,
                    histVars >>

\* init: the assignment to .textures; the guard is dropped with the statement.
InitInstall ==
    /\ ctl = "init_install"
    /\ textures' = Range(output)
    /\ output' = <<>>
    /\ lockHolders' = lockHolders \ {MainThread}
    /\ ctl' = "spawn"
    /\ UNCHANGED << call, params, panicCause, lastCall, thread_count, starts,
                    spawned, threads, stop_flag, poisoned, objects, worker,
                    histVars >>

\* start: one iteration of for n in 0..thread_count.
Spawn ==
    /\ ctl = "spawn"
    /\ spawned < thread_count
    /\ LET w == CHOOSE x \in Unborn : \A y \in Unborn : x <= y
       IN /\ worker' = [worker EXCEPT ![w].pc = "run"]
          /\ threads' = Append(threads, w)
          /\ stopAtSpawn' = [stopAtSpawn EXCEPT ![w] = stop_flag]
    /\ spawned' = spawned + 1
    /\ UNCHANGED << call, params, ctl, panicCause, lastCall, thread_count, starts,
                    output, stop_flag, lockHolders, poisoned, textures,
                    objects, texCalls, slicesAfterStop, phaseAtStop >>

\* start returns.
StartReturn ==
    /\ ctl = "spawn"
    /\ spawned = thread_count
    /\ ctl' = "idle"
    /\ UNCHANGED << call, params, panicCause, lastCall, thread_count, starts,
                    spawned, output, threads, stop_flag, lockHolders, poisoned,
                    textures, objects, worker, histVars >>

(***************************************************************************)
(* CityBuilder::stop.                                                      *)
(***************************************************************************)
\* stop_flag.store(true, Relaxed)
Stop ==
    /\ ctl = "idle"
    /\ stop_flag' = TRUE
    /\ ctl' = "join"
    /\ lastCall' = "stop"
    /\ phaseAtStop' = IF stop_flag THEN phaseAtStop
                      ELSE [w \in Workers |-> Phase(worker[w])]
    /\ UNCHANGED << call, params, panicCause, thread_count, starts, spawned, output,
                    threads, lockHolders, poisoned, textures, objects, worker,
                    texCalls, slicesAfterStop, stopAtSpawn >>

\* item.join().unwrap() on a thread that returned from run.
JoinOk ==
    /\ ctl = "join"
    /\ threads # <<>>
    /\ worker[Head(threads)].pc = "done"
    /\ threads' = Tail(threads)
    /\ UNCHANGED << call, params, ctlVars, stop_flag, lockHolders, poisoned,
                    textures, objects, worker, histVars >>

\* item.join().unwrap() on a thread that panicked; the Drain's drop empties
\* the list.
JoinPanic ==
    /\ ctl = "join"
    /\ threads # <<>>
    /\ worker[Head(threads)].pc = "panicked"
    /\ threads' = <<>>
    /\ ctl' = "panicked"
    /\ panicCause' = "join"
    /\ UNCHANGED << call, params, lastCall, thread_count, starts, spawned, output,
                    stop_flag, lockHolders, poisoned, textures, objects,
                    worker, histVars >>

\* stop returns.
StopReturn ==
    /\ ctl = "join"
    /\ threads = <<>>
    /\ ctl' = "idle"
    /\ UNCHANGED << call, params, panicCause, lastCall, thread_count, starts,
                    spawned, output, threads, stop_flag, lockHolders, poisoned,
                    textures, objects, worker, histVars >>

(***************************************************************************)
(* CityBuilder::run.                                                       *)
(***************************************************************************)
\* state.lock().unwrap(), the argument of new_from_map.
WLock(w) ==
    /\ worker[w].pc = "run"
    /\ CanLock
    /\ IF poisoned
         THEN /\ worker' = [worker EXCEPT ![w] = NoLocals("panicked")]
              /\ UNCHANGED lockHolders
         ELSE /\ worker' = [worker EXCEPT ![w].pc = "conv_get"]
              /\ lockHolders' = lockHolders \cup {w}
    /\ UNCHANGED << call, params, ctlVars, threads, stop_flag, poisoned, textures,
                    objects, histVars >>

\* The field new_from_map builds next.
NextField(w) == CityTextureFields[Len(worker[w].city_textures) + 1]

\* new_from_map: rgbas.get(key).unwrap() finds the key.
WConvGet(w) ==
    /\ worker[w].pc = "conv_get"
    /\ LookupKey(NextField(w)) \in textures
    /\ worker' = [worker EXCEPT ![w].pc = "conv_add"]
    /\ UNCHANGED << call, params, ctlVars, threads, stop_flag, lockHolders, poisoned,
                    textures, objects, histVars >>

\* new_from_map: rgbas.get(key).unwrap() on a missing key.  The guard is alive:
\* the unwinding drops it and poisons the Mutex, and drops the handles made.
WConvMissing(w) ==
    /\ worker[w].pc = "conv_get"
    /\ LookupKey(NextField(w)) \notin textures
    /\ worker' = [worker EXCEPT ![w] = NoLocals("panicked")]
    /\ poisoned' = TRUE
    /\ lockHolders' = lockHolders \ {w}
    /\ UNCHANGED << call, params, ctlVars, threads, stop_flag, textures, objects,
                    histVars >>

\* Mutant: the guard outlives the let statement of new_from_map.
WConvAddKeepsGuard(w) ==
    /\ worker[w].pc = "conv_add"
    /\ LET built == Append(worker[w].city_textures, LookupKey(NextField(w)))
           last == Len(built) = Len(CityTextureFields)
       IN worker' = [worker EXCEPT ![w].city_textures = built,
                                   ![w].pc = IF last THEN "ground" ELSE "conv_get"]
    /\ texCalls' = [texCalls EXCEPT ![w] = @ + 2]
    /\ UNCHANGED << call, params, ctlVars, threads, stop_flag, lockHolders, poisoned,
                    textures, objects, slicesAfterStop, phaseAtStop, stopAtSpawn >>

\* new_from_map: the two create_texture_from_rgba calls of one field return.
\* After the last field the let statement ends and the guard is dropped.
WConvAdd(w) ==
    /\ worker[w].pc = "conv_add"
    /\ LET built == Append(worker[w].city_textures, LookupKey(NextField(w)))
           last == Len(built) = Len(CityTextureFields)
       IN /\ worker' = [worker EXCEPT ![w].city_textures = built,
                                      ![w].pc = IF last THEN "ground" ELSE "conv_get"]
          /\ lockHolders' = IF last THEN lockHolders \ {w} ELSE lockHolders
    /\ texCalls' = [texCalls EXCEPT ![w] = @ + 2]
    /\ UNCHANGED << call, params, ctlVars, threads, stop_flag, poisoned, textures,
                    objects, slicesAfterStop, phaseAtStop, stopAtSpawn >>

\* The ground plane's create_simple_block returns.
WGround(w) ==
    /\ worker[w].pc = "ground"
    /\ worker' = [worker EXCEPT ![w].ground_handle = TRUE, ![w].pc = "perm"]
    /\ UNCHANGED << call, params, ctlVars, threads, stop_flag, lockHolders, poisoned,
                    textures, objects, histVars >>

\* Mutant: the permanent batch is not bound to a variable, and is dropped.
WPermanentDropped(w) ==
    /\ worker[w].pc = "perm"
    /\ worker' = [worker EXCEPT ![w].pc = "looptop"]
    /\ UNCHANGED << call, params, ctlVars, threads, stop_flag, lockHolders, poisoned,
                    textures, objects, histVars >>

\* draw_building_grid(0..BLDG_ROWS/2) returns.
WPermanent(w) ==
    /\ worker[w].pc = "perm"
    /\ worker' = [worker EXCEPT ![w].permanent_buildings = PermanentCount,
                                ![w].pc = "looptop"]
    /\ UNCHANGED << call, params, ctlVars, threads, stop_flag, lockHolders, poisoned,
                    textures, objects, histVars >>

\* loop { if stop_flag.load() { break } ...: the break ends run, whose locals
\* are dropped.
WLoopTop(w) ==
    /\ worker[w].pc = "looptop"
    /\ worker' = IF stop_flag
                   THEN [worker EXCEPT ![w] = NoLocals("done")]
                   ELSE [worker EXCEPT ![w].pc = "gen"]
    /\ UNCHANGED << call, params, ctlVars, threads, stop_flag, lockHolders, poisoned,
                    textures, objects, histVars >>

\* draw_building_grid(BLDG_ROWS/2..BLDG_ROWS) returns; the first Idle scope
\* begins.
WGenerate(w) ==
    /\ worker[w].pc = "gen"
    /\ worker' = [worker EXCEPT ![w].temporary_buildings = TransientCount,
                                ![w].pc = "hold1",
                                ![w].i = 0]
    /\ UNCHANGED << call, params, ctlVars, threads, stop_flag, lockHolders, poisoned,
                    textures, objects, histVars >>

\* Mutant: the permanent batch is generated again after every cycle.
AfterHoldRegenerates(w, pc) ==
    IF pc \in {"hold1", "sleep1"}
      THEN [worker EXCEPT ![w].pc = "delete"]
      ELSE [worker EXCEPT ![w].pc = "perm",
                          ![w].temporary_buildings = 0,
                          ![w].cycles = IF @ < MaxCycles THEN @ + 1 ELSE @]

\* Where a worker goes when a hold loop ends.
AfterHold(w, pc) ==
    IF pc \in {"hold1", "sleep1"}
      THEN [worker EXCEPT ![w].pc = "delete"]
      ELSE [worker EXCEPT ![w].pc = "looptop",
                          ![w].temporary_buildings = 0,   \* its scope ends
                          ![w].cycles = IF @ < MaxCycles THEN @ + 1 ELSE @]

\* Mutant: a hold loop that sees the stop flag returns from run.
WHoldCheckReturns(w) ==
    /\ worker[w].pc \in {"hold1", "hold2"}
    /\ worker' = IF stop_flag
                   THEN [worker EXCEPT ![w] = NoLocals("done")]
                   ELSE [worker EXCEPT ![w].pc =
                             IF @ = "hold1" THEN "sleep1" ELSE "sleep2"]
    /\ UNCHANGED << call, params, ctlVars, threads, stop_flag, lockHolders, poisoned,
                    textures, objects, histVars >>

\* Mutant: only the first Idle scope polls the stop flag.
WHoldCheckFirstOnly(w) ==
    /\ worker[w].pc \in {"hold1", "hold2"}
    /\ worker' = IF stop_flag /\ worker[w].pc = "hold1"
                   THEN AfterHold(w, worker[w].pc)
                   ELSE [worker EXCEPT ![w].pc =
                             IF @ = "hold1" THEN "sleep1" ELSE "sleep2"]
    /\ UNCHANGED << call, params, ctlVars, threads, stop_flag, lockHolders, poisoned,
                    textures, objects, histVars >>

\* for i in 0..100 { if stop_flag.load() { break; } ...
WHoldCheck(w) ==
    /\ worker[w].pc \in {"hold1", "hold2"}
    /\ worker' = IF stop_flag
                   THEN AfterHold(w, worker[w].pc)
                   ELSE [worker EXCEPT ![w].pc =
                             IF @ = "hold1" THEN "sleep1" ELSE "sleep2"]
    /\ UNCHANGED << call, params, ctlVars, threads, stop_flag, lockHolders, poisoned,
                    textures, objects, histVars >>

\* Mutant: the loop runs one slice more.
SleepOneMore(w, limit) ==
    /\ worker[w].pc \in {"sleep1", "sleep2"}
    /\ worker' = IF worker[w].i >= limit
                   THEN AfterHold(w, worker[w].pc)
                   ELSE [worker EXCEPT ![w].i = @ + 1,
                                       ![w].pc = IF @ = "sleep1" THEN "hold1" ELSE "hold2"]
    /\ slicesAfterStop' =
         [slicesAfterStop EXCEPT ![w] = IF stop_flag /\ @ < 2 THEN @ + 1 ELSE @]
    /\ UNCHANGED << call, params, ctlVars, threads, stop_flag, lockHolders, poisoned,
                    textures, objects, texCalls, phaseAtStop, stopAtSpawn >>

\* ... std::thread::sleep(100 ms) }: the slice, and the loop's increment.
Sleep(w, limit) ==
    /\ worker[w].pc \in {"sleep1", "sleep2"}
    /\ worker' = IF worker[w].i + 1 >= limit
                   THEN AfterHold(w, worker[w].pc)
                   ELSE [worker EXCEPT ![w].i = @ + 1,
                                       ![w].pc = IF @ = "sleep1" THEN "hold1" ELSE "hold2"]
    /\ slicesAfterStop' =
         [slicesAfterStop EXCEPT ![w] = IF stop_flag /\ @ < 2 THEN @ + 1 ELSE @]
    /\ UNCHANGED << call, params, ctlVars, threads, stop_flag, lockHolders, poisoned,
                    textures, objects, texCalls, phaseAtStop, stopAtSpawn >>

\* The slices of a hold phase, as many as the model's bound allows.
WSleep(w) == Sleep(w, SliceLimit)

\* Mutant: the delete step leaves the batch in the vector.
WDeleteNoClear(w) ==
    /\ worker[w].pc = "delete"
    /\ worker' = [worker EXCEPT ![w].pc = "hold2", ![w].i = 0]
    /\ UNCHANGED << call, params, ctlVars, threads, stop_flag, lockHolders, poisoned,
                    textures, objects, histVars >>

\* temporary_buildings.clear(); the second Idle scope begins.
WDelete(w) ==
    /\ worker[w].pc = "delete"
    /\ worker' = [worker EXCEPT ![w].temporary_buildings = 0,
                                ![w].pc = "hold2",
                                ![w].i = 0]
    /\ UNCHANGED << call, params, ctlVars, threads, stop_flag, lockHolders, poisoned,
                    textures, objects, histVars >>

Next ==
    \/ \E n \in ThreadCounts : Start(n)
    \/ InitLoadOk
    \/ InitLoadFail
    \/ InitLock
    \/ InitInstall
    \/ Spawn
    \/ StartReturn
    \/ Stop
    \/ JoinOk
    \/ JoinPanic
    \/ StopReturn
    \/ \E w \in Workers : WLock(w)
    \/ \E w \in Workers : WConvGet(w)
    \/ \E w \in Workers : WConvMissing(w)
    \/ \E w \in Workers : WConvAdd(w)
    \/ \E w \in Workers : WGround(w)
    \/ \E w \in Workers : WPermanent(w)
    \/ \E w \in Workers : WLoopTop(w)
    \/ \E w \in Workers : WGenerate(w)
    \/ \E w \in Workers : WHoldCheck(w)
    \/ \E w \in Workers : WSleep(w)
    \/ \E w \in Workers : WDelete(w)

Spec == Init /\ [][Next]_vars

(***************************************************************************)
(* The program with one call of start, one worker and hold phases of the   *)
(* code's full length.                                                     *)
(***************************************************************************)
StartOne == starts = 0 /\ Start(1)

WSleepFull(w) == Sleep(w, HOLD_SLICES)

HoldNext ==
    \/ StartOne
    \/ InitLoadOk
    \/ InitLoadFail
    \/ InitLock
    \/ InitInstall
    \/ Spawn
    \/ StartReturn
    \/ Stop
    \/ JoinOk
    \/ JoinPanic
    \/ StopReturn
    \/ \E w \in Workers : WLock(w)
    \/ \E w \in Workers : WConvGet(w)
    \/ \E w \in Workers : WConvMissing(w)
    \/ \E w \in Workers : WConvAdd(w)
    \/ \E w \in Workers : WGround(w)
    \/ \E w \in Workers : WPermanent(w)
    \/ \E w \in Workers : WLoopTop(w)
    \/ \E w \in Workers : WGenerate(w)
    \/ \E w \in Workers : WHoldCheck(w)
    \/ \E w \in Workers : WSleepFull(w)
    \/ \E w \in Workers : WDelete(w)

HoldSpec == Init /\ [][HoldNext]_vars

(***************************************************************************)
(* The functions of solids.rs and the draw functions, each called on its   *)
(* own with inputs drawn from bounded sets.                                *)
(***************************************************************************)
\* Scale components explored: 0 .. MaxDim halves.
MaxDim == 2
\* Normal components explored: -MaxNormal .. MaxNormal halves.
MaxNormal == 2
\* Story heights explored: 1 .. MaxHeight halves.
MaxHeight == 6
\* Bays explored on the front face: 0 .. MaxBays.
MaxBays == 2
\* Bays explored on the side face: 0 .. MaxSideBays.
MaxSideBays == 1

builderVars == << params, ctl, panicCause, lastCall, thread_count, starts,
                  spawned, output, threads, stop_flag, lockHolders, poisoned,
                  textures, objects, worker, texCalls, slicesAfterStop,
                  phaseAtStop, stopAtSpawn >>

HalfSteps(lo, hi) == { k * (FixedOne \div 2) : k \in lo..hi }

ScaleInputs == HalfSteps(0, MaxDim) \X HalfSteps(0, MaxDim) \X HalfSteps(0, MaxDim)
OffsetInputs ==
    { <<0, 0, 0>>, <<0, -(FixedOne \div 4), 0>>,
      <<FixedOne, FixedOne \div 2, -FixedOne>> }
RepeatInputs == { FixedOne \div 4, FixedOne }
NormalInputs ==
    HalfSteps(-MaxNormal, MaxNormal) \X HalfSteps(-MaxNormal, MaxNormal)
        \X HalfSteps(-MaxNormal, MaxNormal)

\* enum WallKind
WallKinds == {"None", "Solid", "Door", "Window"}
BaySeqs(most) == UNION { [1..n -> WallKinds] : n \in 0..most }

\* size of a wall section: (width, height, thickness), around the program's
\* (WALL_WIDTH, STORY_HEIGHT, 0.2).
SizeInputs ==
    { <<2 * FixedOne, h, t>> :
        h \in HalfSteps(1, MaxHeight), t \in {FixedOne \div 5, FixedOne \div 4} }
PosInputs == { <<0, 0, 0>>, <<-10 * FixedOne, 3 * FixedOne, 20 * FixedOne>> }
Rotations == 0..3
\* rot of a story: as the program has it (IDENTITY), and turned once.
StoryRotations == 0..1

CallCreateMesh(scale, offset, texture_scale, flip) ==
    /\ call.fn = "none"
    /\ call' = [ fn |-> "create_mesh", scale |-> scale, offset |-> offset,
                 texture_scale |-> texture_scale,
                 mesh |-> create_mesh(scale, offset, texture_scale, flip) ]
    /\ UNCHANGED builderVars

CallNormToAxis(normal) ==
    /\ call.fn = "none"
    /\ call' = [ fn |-> "norm_to_axis", normal |-> normal,
                 axis |-> norm_to_axis(normal) ]
    /\ UNCHANGED builderVars

CallDrawWallSection(wall_kind, size, pos, rot, flip) ==
    /\ call.fn = "none"
    /\ call' = [ fn |-> "draw_wall_section", wall_kind |-> wall_kind,
                 size |-> size, pos |-> pos, rot |-> rot,
                 objects |-> draw_wall_section(wall_kind, size, pos, rot,
                                               CityTexturesBuilt, flip) ]
    /\ UNCHANGED builderVars

\* The faces explored: every sequence of kinds up to the bounds, and the
\* faces of the program's building.
FrontInputs ==
    BaySeqs(MaxBays) \cup { two_story_building[n][1] : n \in DOMAIN two_story_building }
SideInputs ==
    BaySeqs(MaxSideBays) \cup { two_story_building[n][2] : n \in DOMAIN two_story_building }

CallDrawOneStory(front, side, size, pos, rot) ==
    /\ call.fn = "none"
    /\ call' = [ fn |-> "draw_one_story", wall_spec |-> <<front, side>>,
                 size |-> size, pos |-> pos, rot |-> rot,
                 objects |-> draw_one_story(<<front, side>>, size, pos, rot,
                                            CityTexturesBuilt, FALSE) ]
    /\ UNCHANGED builderVars

\* Stories explored per building: 0 .. MaxStories.
MaxStories == 2

\* The stories explored: the two of the program's building, and two others.
StorySpecs ==
    { two_story_building[1], two_story_building[2],
      << <<"Door">>, <<"None">> >>,
      << <<"Solid", "Window">>, <<"Door", "None", "Solid">> >> }
BuildingSpecs == UNION { [1..n -> StorySpecs] : n \in 0..MaxStories }

CallDrawBuilding(wall_specs, size, pos, rot) ==
    /\ call.fn = "none"
    /\ call' = [ fn |-> "draw_building", wall_specs |-> wall_specs,
                 size |-> size, pos |-> pos, rot |-> rot,
                 objects |-> draw_building(wall_specs, size, pos, rot,
                                           CityTexturesBuilt, FALSE) ]
    /\ UNCHANGED builderVars

\* The row ranges the program draws: the permanent rows, the transient rows,
\* and the two together.
RowRanges ==
    { <<0, BLDG_ROWS \div 2>>, <<BLDG_ROWS \div 2, BLDG_ROWS>>, <<0, BLDG_ROWS>> }

CallDrawBuildingGrid(bldg_rows) ==
    /\ call.fn = "none"
    /\ call' = [ fn |-> "draw_building_grid", bldg_rows |-> bldg_rows,
                 positions |-> grid_positions(bldg_rows[1], bldg_rows[2]),
                 count |-> GridCount(bldg_rows[1], bldg_rows[2]) ]
    /\ UNCHANGED builderVars

\* The caller is done with the result.
CallReturn ==
    /\ call.fn # "none"
    /\ call' = [fn |-> "none"]
    /\ UNCHANGED builderVars

DrawInit == Init /\ params = CITY_TEXTURES

DrawNext ==
    \/ call.fn = "none" /\ \E scale \in ScaleInputs, offset \in OffsetInputs,
          texture_scale \in RepeatInputs, flip \in BOOLEAN :
          CallCreateMesh(scale, offset, texture_scale, flip)
    \/ call.fn = "none" /\ \E normal \in NormalInputs : CallNormToAxis(normal)
    \/ call.fn = "none" /\ \E wall_kind \in WallKinds, size \in SizeInputs,
                              pos \in PosInputs, rot \in Rotations,
                              flip \in BOOLEAN :
          CallDrawWallSection(wall_kind, size, pos, rot, flip)
    \/ call.fn = "none" /\ \E wall_specs \in BuildingSpecs, rot \in StoryRotations :
          CallDrawBuilding(wall_specs,
                           <<2 * FixedOne, 3 * FixedOne, FixedOne \div 5>>,
                           <<-10 * FixedOne, 0, 20 * FixedOne>>, rot)
    \/ call.fn = "none" /\ \E bldg_rows \in RowRanges : CallDrawBuildingGrid(bldg_rows)
    \/ CallReturn

DrawSpec == DrawInit /\ [][DrawNext]_vars

\* The calls of draw_one_story, with the program's bay width, story height
\* and wall thickness.
StoryNext ==
    \/ call.fn = "none" /\ \E front \in FrontInputs, side \in SideInputs,
                              rot \in StoryRotations :
          CallDrawOneStory(front, side,
                           <<2 * FixedOne, 3 * FixedOne, FixedOne \div 5>>,
                           <<0, 0, 0>>, rot)
    \/ CallReturn

StorySpec == DrawInit /\ [][StoryNext]_vars

(***************************************************************************)
(* Properties.                                                             *)
(***************************************************************************)
Spawned == Workers \ Unborn

\* C1: start(n) with n >= 100 fails at the assertion: the call has loaded no
\* texture and spawned no worker, and on a fresh builder the thread list is
\* empty and CityState is as constructed.
C1_StartRejectsFast ==
    thread_count >= SanityLimit =>
        /\ ctl = "panicked" /\ panicCause = "assert"
        /\ output = <<>>
        /\ spawned = 0
        /\ starts = 1 =>
              /\ threads = <<>>
              /\ Spawned = {}
              /\ textures = {}
              /\ objects = <<>>
              /\ lockHolders = {} /\ ~poisoned

C1_Witness ==
    thread_count >= SanityLimit /\ starts = 1 /\ ctl = "panicked"

\* C2: a call of stop after workers were spawned always returns, and when it
\* has returned every spawned worker has left its loop and terminated and the
\* thread list is empty.
C2_StopAlwaysReturns ==
    lastCall = "stop" =>
        /\ ctl # "panicked"
        /\ ctl = "idle" =>
              /\ threads = <<>>
              /\ \A w \in Spawned : worker[w].pc = "done"

\* What holds of stop in every run: unless a worker has panicked, stop is
\* never stuck (a step is enabled until it has returned) and it returns with
\* every worker terminated.
StopReturnsUnlessFault ==
    (lastCall = "stop" /\ \A w \in Workers : worker[w].pc # "panicked") =>
        /\ ctl \in {"join", "idle"}
        /\ ctl = "join" => ENABLED Next
        /\ ctl = "idle" =>
              /\ threads = <<>>
              /\ \A w \in Spawned : worker[w].pc = "done"

\* C3: once the stop flag is set a worker begins at most one more sleep slice
\* over both hold phases, and none if it was generating a batch when the flag
\* was set.
C3_BoundedShutdownLatency ==
    \A w \in Workers :
        /\ slicesAfterStop[w] <= 1
        /\ phaseAtStop[w] \in {"GeneratingPermanent", "GeneratingTransient"}
              => slicesAfterStop[w] = 0

C3_Witness ==
    \E w \in Workers :
        /\ phaseAtStop[w] = "Holding"
        /\ slicesAfterStop[w] = 1
        /\ worker[w].pc = "done"

\* C4: a worker owns exactly one generation step's transient handles from the
\* end of a generation to the delete step, and none at any other time, however
\* many cycles it has completed.
C4_NoTransientAccumulation ==
    \A w \in Workers :
        worker[w].temporary_buildings =
            IF worker[w].pc \in {"hold1", "sleep1", "delete"}
              THEN TransientCount ELSE 0

C4_Witness ==
    \E w \in Workers :
        /\ worker[w].cycles = MaxCycles
        /\ worker[w].pc = "sleep1"
        /\ worker[w].temporary_buildings = TransientCount

\* The CityObject wrappers in a CityState.objects list for one worker's batch.
RECURSIVE ObjectsOf(_, _, _)
ObjectsOf(list, w, batch) ==
    IF list = <<>> THEN 0
    ELSE (IF Head(list).owner = w /\ Head(list).batch = batch
            THEN Head(list).count ELSE 0)
         + ObjectsOf(Tail(list), w, batch)

\* Positions of run at which the permanent batch has been generated.
InLoop == {"looptop", "gen", "hold1", "sleep1", "delete", "hold2", "sleep2"}

\* C5 as claimed: CityState.objects holds a wrapper for every handle of a
\* worker's permanent batch once generated, and of its transient batch from
\* its generation until its deletion.
C5_HandlesInCityState ==
    \A w \in Workers :
        /\ worker[w].pc \in InLoop
              => ObjectsOf(objects, w, "permanent") = PermanentCount
        /\ worker[w].pc \in {"hold1", "sleep1", "delete"}
              => ObjectsOf(objects, w, "transient") = TransientCount
        /\ worker[w].pc \in {"hold2", "sleep2"}
              => ObjectsOf(objects, w, "transient") = 0

\* C5 as amended: the handles are held by the worker's own vectors, the
\* permanent batch from its generation until run returns and a transient batch
\* from its generation until the delete step, and CityState.objects is empty.
C5_HandlesInWorkerVectors ==
    /\ objects = <<>>
    /\ \A w \in Workers :
          /\ worker[w].pc \in InLoop
                => worker[w].permanent_buildings = PermanentCount
          /\ worker[w].pc \in {"hold1", "sleep1", "delete"}
                => worker[w].temporary_buildings = TransientCount
          /\ worker[w].pc \in {"hold2", "sleep2"}
                => worker[w].temporary_buildings = 0

C5_Witness ==
    \E w \in Workers :
        /\ worker[w].pc = "hold2"
        /\ worker[w].cycles >= 1
        /\ worker[w].permanent_buildings = PermanentCount
        /\ objects = <<>>

\* Positions of run after new_from_map has returned.
PastConversion == {"ground", "perm"} \cup InLoop

\* C6 as claimed: the conversion to engine texture handles is done by the
\* thread that calls start, before any worker exists, and no worker issues an
\* add-texture call.
C6_ConversionOnCallingThread ==
    /\ \A w \in Workers : texCalls[w] = 0
    /\ Spawned # {} => texCalls[MainThread] > 0

\* C6 as amended: start loads the texture files and installs the map on the
\* calling thread before it spawns a worker; the conversion to engine handles
\* is done by every worker itself at the start of run (two add-texture calls
\* per field), and the calling thread issues no add-texture call.
C6_LoadOnCallerConversionInWorker ==
    /\ ctl \in {"init_load", "init_install"} => spawned = 0
    /\ Spawned # {} => textures = Range(params)
    /\ texCalls[MainThread] = 0
    /\ \A w \in Workers :
          worker[w].pc \in PastConversion
              => texCalls[w] = 2 * Len(CityTextureFields)

C6_Witness ==
    \E w \in Workers :
        /\ worker[w].pc = "ground"
        /\ texCalls[w] = 2 * Len(CityTextureFields)
        /\ texCalls[MainThread] = 0

\* A worker is inside a render-engine call: add_texture, add_material and
\* add_mesh of the draw functions, or the handle drops of clear().
InEngineCall(w) == worker[w].pc \in {"conv_add", "ground", "perm", "gen", "delete"}

\* C7: no thread is inside a render-engine call while it holds the CityState
\* lock.
C7_NoLockAcrossEngineCall ==
    \A w \in Workers : InEngineCall(w) => w \notin lockHolders

\* C8: the texture table is installed and read only under the lock, the lock
\* has one holder at most, what is installed is the whole map, and a reader
\* sees the whole map.
C8_StateAccessUnderLock ==
    /\ Cardinality(lockHolders) <= 1
    /\ ctl = "init_install" <=> MainThread \in lockHolders
    /\ ctl = "init_install" => Len(output) = Len(params)
    /\ \A w \in Workers :
          /\ worker[w].pc \in {"conv_get", "conv_add"} <=> w \in lockHolders
          /\ w \in lockHolders => textures = Range(params)

\* A worker reads the table while the controller, in a second start, waits
\* for the lock to install.
C8_Witness ==
    /\ ctl = "init_load" /\ Len(output) = Len(params)
    /\ \E w \in Workers : w \in lockHolders /\ worker[w].pc = "conv_add"

\* The phase order of a worker.
PhaseOrder ==
    { <<"Idle", "TexturesReady">>,
      <<"TexturesReady", "GeneratingPermanent">>,
      <<"GeneratingPermanent", "GeneratingTransient">>,
      <<"GeneratingTransient", "Holding">>,
      <<"Holding", "DeletingTransient">>,
      <<"DeletingTransient", "GeneratingTransient">>,
      <<"GeneratingPermanent", "Stopped">>,
      <<"DeletingTransient", "Stopped">> }

PhaseStep(w, order) ==
    Phase(worker[w])' # Phase(worker[w]) =>
        /\ << Phase(worker[w]), Phase(worker[w])' >> \in order
        /\ Phase(worker[w])' = "Stopped" => stop_flag

\* C9: every worker changes phase along Idle -> TexturesReady ->
\* GeneratingPermanent -> (GeneratingTransient -> Holding ->
\* DeletingTransient)* -> Stopped only, and leaves the cycle only once the
\* stop flag is set.
C9_PhaseOrder == [][\A w \in Workers : PhaseStep(w, PhaseOrder)]_vars

\* What holds of the phases in every run: the order, but for a worker that
\* panics before its textures are ready.
PhaseOrderUnlessFault ==
    [][\A w \in Workers :
          PhaseStep(w, PhaseOrder \cup {<<"Idle", "Faulted">>})]_vars

\* C10: when a texture file fails to load, start has panicked in init: the
\* call has spawned no worker, the calling thread holds no guard, the texture
\* map is as it was (empty on a fresh builder, never a part of the list), and
\* the Mutex is not poisoned by the call.
C10_LoadFailureIsFatal ==
    /\ textures \in {{}, Range(params)}
    /\ panicCause = "load" =>
          /\ ctl = "panicked"
          /\ spawned = 0
          /\ MainThread \notin lockHolders
          /\ poisoned => \E w \in Workers : worker[w].pc = "panicked"
          /\ starts = 1 => textures = {} /\ Spawned = {} /\ threads = <<>>

C10_Witness ==
    panicCause = "load" /\ starts = 1 /\ textures = {} /\ ~poisoned

\* A descriptor list that lacks a key of the viewer's list.
Malformed == \E k \in Range(CITY_TEXTURES) : k \notin Range(params)

\* C11: with a descriptor list that lacks one of the keys stone, brick, floor,
\* ceiling, roof, ground, start fails before it spawns a worker: no worker
\* exists and no generation step runs.
C11_MalformedListRejected ==
    Malformed =>
        /\ Spawned = {}
        /\ threads = <<>>
        /\ lastCall = "start" => ctl # "idle"

\* C12: a worker's panic is contained: the Mutex stays usable by the other
\* workers, no other worker fails because of it, and a later stop does not
\* fail at the join.
C12_WorkerFaultContained ==
    (\E w \in Workers : worker[w].pc = "panicked") =>
        /\ ~poisoned
        /\ Cardinality({ w \in Workers : worker[w].pc = "panicked" }) <= 1
        /\ panicCause \notin {"join", "poison"}

\* C13: a call of stop on a builder whose thread list is empty leaves the
\* thread list, CityState and the stop flag as they were.
C13_StopWithoutThreadsIsNoOp ==
    [][ (ctl = "idle" /\ ctl' = "join" /\ threads = <<>>) =>
            /\ threads' = threads
            /\ textures' = textures
            /\ objects' = objects
            /\ stop_flag' = stop_flag ]_vars

\* How far a worker is in run: the statements before the loop are passed once.
Progress(pc) ==
    CASE pc = "unborn"                  -> 0
      [] pc = "run"                     -> 1
      [] pc \in {"conv_get", "conv_add"} -> 2
      [] pc = "ground"                  -> 3
      [] pc = "perm"                    -> 4
      [] pc \in InLoop                  -> 5
      [] pc \in {"done", "panicked"}    -> 6

\* C14: a worker generates the ground plane and the permanent batch once, at
\* statements it never returns to; in its loop it holds the ground handle and
\* every handle of the permanent batch, whatever the transient cycles do; and
\* it gives them up only when run returns, with the stop flag set.
C14_PermanentBatchOnce ==
    [][ \A w \in Workers :
          LET old == worker[w]
              new == worker[w]'
          IN /\ Progress(new.pc) >= Progress(old.pc)
             /\ new.pc \in InLoop =>
                   new.ground_handle /\ new.permanent_buildings = PermanentCount
             /\ new.permanent_buildings # old.permanent_buildings =>
                   \/ old.pc = "perm" /\ new.pc = "looptop"
                   \/ new.pc = "done" /\ stop_flag
             /\ new.ground_handle # old.ground_handle =>
                   \/ old.pc = "ground" /\ new.pc = "perm"
                   \/ new.pc = "done" /\ stop_flag ]_vars

\* A worker in the delete step of a later cycle, the permanent batch in hand.
C14_Witness ==
    \E w \in Workers :
        /\ worker[w].pc = "delete"
        /\ worker[w].cycles = MaxCycles
        /\ worker[w].ground_handle
        /\ worker[w].permanent_buildings = PermanentCount
        /\ ~stop_flag

C16_CubeMeshShape ==
    call.fn = "create_mesh" =>
        LET m == call.mesh IN
        /\ m.built
        /\ Len(m.vertex_positions) = 24
        /\ Len(m.vertex_normals) = 24
        /\ Len(m.vertex_uv0) = 24
        /\ Len(m.indices) = 36
        /\ Len(m.indices) = 3 * 12
        /\ \A k \in DOMAIN m.indices : m.indices[k] \in 0..23
        /\ \A f \in 0..5 :
              /\ \A a, b \in (4 * f + 1)..(4 * f + 4) :
                    m.vertex_normals[a] = m.vertex_normals[b]
              /\ \A k \in (6 * f + 1)..(6 * f + 6) :
                    m.indices[k] \in (4 * f)..(4 * f + 3)
        /\ \A t \in 0..11 :
              Cardinality({ m.indices[3 * t + c] : c \in 1..3 }) = 3

\* A cube of no extent, away from the origin, built with the winding flipped.
C16_Witness ==
    /\ call.fn = "create_mesh"
    /\ call.scale = <<0, 0, 0>>
    /\ call.offset # <<0, 0, 0>>
    /\ call.mesh.built
    /\ call.mesh.indices[1] = 2

\* C17 as claimed: norm_to_axis returns the axis of a largest absolute
\* component, and of the axes that tie for the largest it returns the first
\* in the order X, Y, Z.
C17_TiesToFirstAxis ==
    call.fn = "norm_to_axis" =>
        LET x == Abs(call.normal[1])
            y == Abs(call.normal[2])
            z == Abs(call.normal[3])
            a == call.axis
        IN /\ \A c \in 1..3 : Abs(call.normal[a + 1]) >= Abs(call.normal[c])
           /\ ((x = y /\ x >= z) \/ (x = z /\ x >= y)) => a = 0
           /\ (y = z /\ y > x) => a = 1

\* C17 as amended: norm_to_axis returns the axis of a largest absolute
\* component; X only when |x| exceeds both others, Y only when |y| exceeds
\* |z|; so axes that tie for the largest go to the last of them in the order
\* X, Y, Z.
C17_TiesToLastAxis ==
    call.fn = "norm_to_axis" =>
        LET x == Abs(call.normal[1])
            y == Abs(call.normal[2])
            z == Abs(call.normal[3])
            a == call.axis
        IN /\ a \in 0..2
           /\ \A c \in 1..3 : Abs(call.normal[a + 1]) >= Abs(call.normal[c])
           /\ (x > y /\ x > z) => a = 0
           /\ (x = y /\ x > z) => a = 1
           /\ (y > x /\ y > z) => a = 1
           /\ (x = z /\ x >= y) => a = 2
           /\ (y = z /\ y >= x) => a = 2
           /\ (z > x /\ z > y) => a = 2

\* |x| = |y| > |z|: the answer is Y.
C17_Witness ==
    /\ call.fn = "norm_to_axis"
    /\ call.normal = <<FixedOne, -FixedOne, 0>>
    /\ call.axis = 1

\* The vertical extent of a block's mesh, relative to the block's position.
Heights(object) ==
    { object.mesh.vertex_positions[i][2] : i \in DOMAIN object.mesh.vertex_positions }
Bottom(object) == CHOOSE y \in Heights(object) : \A v \in Heights(object) : y <= v
Top(object) == CHOOSE y \in Heights(object) : \A v \in Heights(object) : y >= v

\* C18: a Window section of height H has, after its column, a top band of
\* height H/4 over [3H/4, H] and a bottom band of height H/4 over [0, H/4];
\* the opening between them is H/2 high, the three heights add up to H, and
\* the bands do not overlap.
C18_WindowBands ==
    (call.fn = "draw_wall_section" /\ call.wall_kind = "Window") =>
        LET H == call.size[2]
            top == call.objects[2]
            bottom == call.objects[3]
            opening == Bottom(top) - Top(bottom)
        IN /\ Len(call.objects) = 3
           /\ 4 * (Top(top) - Bottom(top)) = H
           /\ 4 * (Top(bottom) - Bottom(bottom)) = H
           /\ 2 * opening = H
           /\ (Top(top) - Bottom(top)) + opening + (Top(bottom) - Bottom(bottom)) = H
           /\ Bottom(bottom) = 0 /\ 4 * Top(bottom) = H
           /\ 4 * Bottom(top) = 3 * H /\ Top(top) = H
           /\ Top(bottom) < Bottom(top)

\* A window of the program's story height, 3.0, turned and moved.
C18_Witness ==
    /\ call.fn = "draw_wall_section" /\ call.wall_kind = "Window"
    /\ call.size[2] = 3 * FixedOne
    /\ call.rot = 1 /\ call.pos # <<0, 0, 0>>
    /\ 4 * Bottom(call.objects[2]) = 9 * FixedOne

\* C19: a Door section of height H has, after its column, one lintel of
\* height H/4 over [3H/4, H]; the opening below it is 3H/4 high, from the
\* ground, and the two heights add up to H.
C19_DoorLintel ==
    (call.fn = "draw_wall_section" /\ call.wall_kind = "Door") =>
        LET H == call.size[2]
            lintel == call.objects[2]
            opening == Bottom(lintel)
        IN /\ Len(call.objects) = 2
           /\ 4 * (Top(lintel) - Bottom(lintel)) = H
           /\ 4 * opening = 3 * H
           /\ (Top(lintel) - Bottom(lintel)) + opening = H
           /\ Top(lintel) = H

\* A door of the program's story height, 3.0, and wall thickness, 0.2.
C19_Witness ==
    /\ call.fn = "draw_wall_section" /\ call.wall_kind = "Door"
    /\ call.size = <<2 * FixedOne, 3 * FixedOne, FixedOne \div 5>>
    /\ 4 * Bottom(call.objects[2]) = 9 * FixedOne
    /\ call.objects[2].material = "brick"

\* The wall sections of a story's objects: each begins at a stone column.
Columns(objs) == { k \in DOMAIN objs : objs[k].material = "stone" }
NthColumn(objs, j) ==
    CHOOSE k \in Columns(objs) : Cardinality({ m \in Columns(objs) : m < k }) = j - 1
NthSection(objs, j) ==
    SubSeq(objs, NthColumn(objs, j),
           IF j < Cardinality(Columns(objs))
             THEN NthColumn(objs, j + 1) - 1
             ELSE Len(objs) - 2)

\* C20: draw_one_story with F front bays and S side bays returns 2F + 2S wall
\* sections, the F of the front, the S of the right side, the F of the back
\* with the front's kinds and the S of the left side with the side's kinds,
\* each the objects of draw_wall_section for its kind, turned by its face;
\* then one floor slab and one ceiling slab; and no roof object.
C20_StoryObjects ==
    call.fn = "draw_one_story" =>
        LET objs == call.objects
            front == call.wall_spec[1]
            side == call.wall_spec[2]
            F == Len(front)
            S == Len(side)
            kinds == front \o side \o front \o side
            face(j) == CASE j <= F             -> 0
                         [] j <= F + S         -> 1
                         [] j <= F + S + F     -> 2
                         [] OTHER              -> 3
        IN /\ Cardinality(Columns(objs)) = 2 * F + 2 * S
           /\ \A j \in 1..(2 * F + 2 * S) :
                 LET column == objs[NthColumn(objs, j)]
                 IN /\ column.transform.rot = (face(j) + call.rot) % 4
                    /\ NthSection(objs, j) =
                          draw_wall_section(kinds[j], call.size,
                                            column.transform.pos,
                                            column.transform.rot,
                                            CityTexturesBuilt, FALSE)
           /\ Len(objs) = FaceCount(kinds) + 2
           /\ Len(objs) = StoryCount(call.wall_spec)
           /\ objs[Len(objs) - 1].material = "floor"
           /\ objs[Len(objs)].material = "ceiling"
           /\ \A k \in DOMAIN objs : objs[k].material # "roof"
           /\ Cardinality({ k \in DOMAIN objs : objs[k].material = "floor" }) = 1
           /\ Cardinality({ k \in DOMAIN objs : objs[k].material = "ceiling" }) = 1

\* A story whose front and side differ in length and in kinds.
C20_Witness ==
    /\ call.fn = "draw_one_story"
    /\ call.wall_spec = << <<"Door", "Window">>, <<"Solid">> >>
    /\ call.rot = 0
    /\ Len(call.objects) = 16

\* The extent of a list of positions along one axis.
Least(positions, c) ==
    CHOOSE v \in { positions[k][c] : k \in DOMAIN positions } :
        \A k \in DOMAIN positions : v <= positions[k][c]
Greatest(positions, c) ==
    CHOOSE v \in { positions[k][c] : k \in DOMAIN positions } :
        \A k \in DOMAIN positions : v >= positions[k][c]

\* C21: the grid of all BLDG_ROWS rows places BLDG_ROWS * BLDG_ROWS buildings,
\* one on each cell of the lattice of spacing 10 and none twice, and the
\* placements are centred: along X and Z the least is minus the greatest.
C21_GridCentred ==
    (call.fn = "draw_building_grid" /\ call.bldg_rows = <<0, BLDG_ROWS>>) =>
        LET ps == call.positions IN
        /\ Len(ps) = BLDG_ROWS * BLDG_ROWS
        /\ Cardinality(Range(ps)) = Len(ps)
        /\ \A k \in DOMAIN ps :
              /\ (ps[k][1] - ps[1][1]) % BLDG_SPACING = 0
              /\ (ps[k][3] - ps[1][3]) % BLDG_SPACING = 0
              /\ ps[k][2] = 0
        /\ Least(ps, 1) = -Greatest(ps, 1)
        /\ Least(ps, 3) = -Greatest(ps, 3)

\* What holds of the grid: the count, the lattice and no cell twice; the
\* placements run from -125 to +115 along X and Z.
GridPlacements ==
    (call.fn = "draw_building_grid" /\ call.bldg_rows = <<0, BLDG_ROWS>>) =>
        LET ps == call.positions IN
        /\ Len(ps) = BLDG_ROWS * BLDG_ROWS
        /\ Cardinality(Range(ps)) = Len(ps)
        /\ Least(ps, 1) = -125 * FixedOne /\ Greatest(ps, 1) = 115 * FixedOne
        /\ Least(ps, 3) = -125 * FixedOne /\ Greatest(ps, 3) = 115 * FixedOne

\* C22: a sleep slice is started only from a read of the stop flag that
\* returned false, so a hold phase entered with the flag set sleeps not at all;
\* a hold phase counts its slices from zero, ends early only on a read that
\* returned true, and otherwise ends after exactly HOLD_SLICES slices.
C22_HoldPhaseSlices ==
    [][ \A w \in Workers :
          LET old == worker[w]
              new == worker[w]'
          IN /\ (new.pc = "sleep1" /\ old.pc # "sleep1") =>
                   old.pc = "hold1" /\ ~stop_flag /\ new.i = old.i
             /\ (new.pc = "sleep2" /\ old.pc # "sleep2") =>
                   old.pc = "hold2" /\ ~stop_flag /\ new.i = old.i
             /\ (new.pc = "hold1" /\ old.pc # "hold1") =>
                   \/ old.pc = "gen" /\ new.i = 0
                   \/ old.pc = "sleep1" /\ new.i = old.i + 1 /\ new.i < HOLD_SLICES
             /\ (new.pc = "hold2" /\ old.pc # "hold2") =>
                   \/ old.pc = "delete" /\ new.i = 0
                   \/ old.pc = "sleep2" /\ new.i = old.i + 1 /\ new.i < HOLD_SLICES
             /\ (new.pc = "delete" /\ old.pc # "delete") =>
                   \/ old.pc = "hold1" /\ stop_flag
                   \/ old.pc = "sleep1" /\ old.i + 1 = HOLD_SLICES
             /\ (new.pc = "looptop" /\ old.pc \in {"hold2", "sleep2"}) =>
                   \/ old.pc = "hold2" /\ stop_flag
                   \/ old.pc = "sleep2" /\ old.i + 1 = HOLD_SLICES ]_vars

\* The last slice of a second hold phase, no stop signal given.
C22_Witness ==
    \E w \in Workers :
        /\ worker[w].pc = "sleep2"
        /\ worker[w].i = HOLD_SLICES - 1
        /\ ~stop_flag

\* The extent of a block's mesh along one axis, and its middle, relative to
\* the block's position.
Coords(object, c) ==
    { object.mesh.vertex_positions[i][c] : i \in DOMAIN object.mesh.vertex_positions }
Low(object, c) == CHOOSE v \in Coords(object, c) : \A u \in Coords(object, c) : v <= u
High(object, c) == CHOOSE v \in Coords(object, c) : \A u \in Coords(object, c) : v >= u
Extent(object, c) == High(object, c) - Low(object, c)

\* C23: draw_wall_section returns first a stone column of the full height and
\* of cross-section 2t by 2t, then brick blocks of width (bay width - 2t) and
\* thickness t: none for None, one of the full height for Solid, one lintel
\* for Door, and the top band then the bottom band for Window; 1, 2, 2 and 3
\* objects.
C23_WallSectionBlocks ==
    call.fn = "draw_wall_section" =>
        LET objs == call.objects
            kind == call.wall_kind
            w == call.size[1]
            H == call.size[2]
            t == call.size[3]
            column == objs[1]
        IN /\ Len(objs) = CASE kind = "None" -> 1 [] kind = "Solid" -> 2
                            [] kind = "Door" -> 2 [] kind = "Window" -> 3
           /\ Len(objs) = WallSectionCount(kind)
           /\ column.material = "stone"
           /\ Extent(column, 1) = 2 * t /\ Extent(column, 3) = 2 * t
           /\ Low(column, 2) = 0 /\ High(column, 2) = H
           /\ \A k \in 2..Len(objs) :
                 /\ objs[k].material = "brick"
                 /\ Extent(objs[k], 1) = w - 2 * t
                 /\ Extent(objs[k], 3) = t
                 /\ objs[k].transform = column.transform
           /\ kind = "Solid" => Low(objs[2], 2) = 0 /\ High(objs[2], 2) = H
           /\ kind = "Door" => Low(objs[2], 2) > 0 /\ High(objs[2], 2) = H
           /\ kind = "Window" =>
                 /\ High(objs[2], 2) = H
                 /\ Low(objs[3], 2) = 0
                 /\ Low(objs[2], 2) > High(objs[3], 2)

\* A window of the program's bay: width 2.0, height 3.0, thickness 0.2.
C23_Witness ==
    /\ call.fn = "draw_wall_section" /\ call.wall_kind = "Window"
    /\ call.size = <<2 * FixedOne, 3 * FixedOne, FixedOne \div 5>>
    /\ Len(call.objects) = 3
    /\ Extent(call.objects[1], 1) = (2 * FixedOne) \div 5
    /\ Extent(call.objects[3], 1) = (8 * FixedOne) \div 5

\* C24: draw_building with no stories returns nothing.  With k >= 1 stories
\* it returns the objects of draw_one_story for each story's own wall spec,
\* story n (from 0) raised by n times the story height, and then 5 roof
\* objects, a roof slab and four stone strips, set at k times the story height
\* and sized by the bay counts of the last story.
C24_BuildingStoriesAndRoof ==
    call.fn = "draw_building" =>
        LET specs == call.wall_specs
            objs == call.objects
            k == Len(specs)
            w == call.size[1]
            H == call.size[2]
            t == call.size[3]
            first(n) == StoriesCount(SubSeq(specs, 1, n - 1)) + 1
            roof == SubSeq(objs, Len(objs) - 4, Len(objs))
            fw == Len(specs[k][1]) * w
            sw == Len(specs[k][2]) * w
        IN IF k = 0 THEN objs = <<>>
           ELSE
             /\ Len(objs) = StoriesCount(specs) + 5
             /\ Len(objs) = BuildingCount(specs)
             /\ \A n \in 1..k :
                   SubSeq(objs, first(n), first(n + 1) - 1) =
                       draw_one_story(specs[n], call.size,
                                      VecAdd(call.pos,
                                             Rotate(call.rot, <<0, (n - 1) * H, 0>>)),
                                      call.rot, CityTexturesBuilt, FALSE)
             /\ [i \in 1..5 |-> roof[i].material]
                   = <<"roof", "stone", "stone", "stone", "stone">>
             /\ \A i \in 1..5 :
                   /\ roof[i].transform = [rot |-> call.rot, pos |-> call.pos]
                   /\ Low(roof[i], 2) + High(roof[i], 2)
                         = 2 * (k * H + FixedOne \div 20)
             /\ Low(roof[1], 2) = k * H
             /\ Extent(roof[1], 1) = fw + t /\ Extent(roof[1], 3) = sw + t
             /\ Extent(roof[2], 1) = fw + 3 * t /\ Extent(roof[3], 1) = fw + 3 * t
             /\ Extent(roof[4], 3) = sw + t /\ Extent(roof[5], 3) = sw + t

\* The program's two stories set on a wider story.
C24_Witness ==
    /\ call.fn = "draw_building"
    /\ Len(call.wall_specs) = 2
    /\ call.wall_specs[1] = two_story_building[2]
    /\ call.wall_specs[2] = << <<"Door">>, <<"None">> >>
    /\ call.rot = 1
    /\ Len(call.objects) = StoryCount(two_story_building[2]) + 8 + 5

\* The origin of column j of a story, before the story's own rot and pos:
\* along the front from the origin, along the right side from (F w, 0, 0),
\* back along the back from (F w, 0, S w), back along the left side from
\* (0, 0, S w).
StoryColumnOrigin(j, F, S, w) ==
    CASE j <= F             -> <<(j - 1) * w, 0, 0>>
      [] j <= F + S         -> <<F * w, 0, (j - F - 1) * w>>
      [] j <= F + S + F     -> <<F * w - (j - F - S - 1) * w, 0, S * w>>
      [] OTHER              -> <<0, 0, S * w - (j - F - S - F - 1) * w>>

StoryColumnsPlaced ==
    LET objs == call.objects
        F == Len(call.wall_spec[1])
        S == Len(call.wall_spec[2])
    IN /\ Cardinality(Columns(objs)) = 2 * F + 2 * S
       /\ \A j \in 1..(2 * F + 2 * S) :
             objs[NthColumn(objs, j)].transform.pos =
                 VecAdd(call.pos,
                        Rotate(call.rot,
                               StoryColumnOrigin(j, F, S, call.size[1])))

StoryColumnsDistinct ==
    LET objs == call.objects
    IN \A j, k \in Columns(objs) :
          j # k => objs[j].transform.pos # objs[k].transform.pos

\* C25 (as stated): the four faces of a story form a closed rectangle, each
\* face starting where the one before ends, and no two of the 2F + 2S wall
\* sections have the same column origin, for every F and S.
C25_ClosedRectangle ==
    call.fn = "draw_one_story" => StoryColumnsPlaced /\ StoryColumnsDistinct

\* C25 (amended): the faces run corner to corner for every F and S, and the
\* column origins are all different when F >= 1 and S >= 1; when one of F
\* and S is 0 and the other is 2 or more, two opposite faces lie on the same
\* line and share column origins.
C25_ClosedRectangleWithSides ==
    call.fn = "draw_one_story" =>
        /\ StoryColumnsPlaced
        /\ (Len(call.wall_spec[1]) >= 1 /\ Len(call.wall_spec[2]) >= 1
               => StoryColumnsDistinct)
        /\ (Len(call.wall_spec[1]) >= 2 /\ Len(call.wall_spec[2]) = 0
               => ~StoryColumnsDistinct)
        /\ (Len(call.wall_spec[1]) = 0 /\ Len(call.wall_spec[2]) >= 2
               => ~StoryColumnsDistinct)

\* The first story of the program's building, 4 bays by 2, turned once.
C25_Witness ==
    /\ call.fn = "draw_one_story"
    /\ call.wall_spec = two_story_building[1]
    /\ call.rot = 1
    /\ Cardinality(Columns(call.objects)) = 12
    /\ StoryColumnsDistinct

\* The dominant axis of a cube face normal (0, 1 or 2), the two vertex
\* coordinates projected for it, and the sign of its dominant component.
FaceAxis(normal) == CHOOSE c \in 0..2 : normal[c + 1] # 0
Projected(axis, vertex) ==
    CASE axis = 0 -> <<vertex[3], vertex[2]>>
      [] axis = 1 -> <<vertex[1], vertex[3]>>
      [] axis = 2 -> <<vertex[1], vertex[2]>>
Sign(x) == IF x < 0 THEN -1 ELSE 1

\* s for a face of the given axis and dominant normal component n, under
\* each rule: the sign of n on every axis, its opposite on every axis, or the
\* sign of n inverted for Z only.
SignBy(rule, axis, n) ==
    CASE rule = "SameRule"     -> Sign(n)
      [] rule = "OppositeRule" -> -Sign(n)
      [] rule = "InvertedOnZ"  -> IF axis = 2 THEN -Sign(n) ELSE Sign(n)

\* UV = ((a s + 0.25) 2 r, (b + 0.25) 2 r) at every vertex of the mesh of the
\* call, where s is given for each vertex by the rule.
UVsFollow(rule) ==
    LET m == call.mesh
        r == call.texture_scale
    IN \A i \in DOMAIN m.vertex_positions :
          LET axis == FaceAxis(m.vertex_normals[i])
              ab == Projected(axis, m.vertex_positions[i])
              sgn == SignBy(rule, axis, m.vertex_normals[i][axis + 1])
          IN m.vertex_uv0[i] =
                << ((ab[1] * sgn + FixedOne \div 4) * 2 * r) \div FixedOne,
                   ((ab[2] + FixedOne \div 4) * 2 * r) \div FixedOne >>


\* C26 (as stated): for every cube vertex UV = ((a s + 0.25) 2 r,
\* (b + 0.25) 2 r), with (a, b) = (z, y), (x, z), (x, y) for X, Y, Z, and s
\* is +1 or -1 by the sign of the dominant normal component under one rule
\* that is the same for all three axes.
C26_SameSignRuleOnAllAxes ==
    call.fn = "create_mesh" => UVsFollow("SameRule") \/ UVsFollow("OppositeRule")

\* C26 (amended): the same formula, where s is the sign of the dominant
\* normal component for X and Y and the opposite of that sign for Z; the two
\* opposite faces of each axis get opposite s.
C26_SignInvertedOnZ ==
    call.fn = "create_mesh" =>
        /\ UVsFollow("InvertedOnZ")
        /\ \A i, j \in DOMAIN call.mesh.vertex_normals :
              call.mesh.vertex_normals[i] = VecScale(call.mesh.vertex_normals[j], -FixedOne)
                 => SignBy("InvertedOnZ", FaceAxis(call.mesh.vertex_normals[i]),
                           call.mesh.vertex_normals[i][FaceAxis(call.mesh.vertex_normals[i]) + 1])
                    = -SignBy("InvertedOnZ", FaceAxis(call.mesh.vertex_normals[j]),
                              call.mesh.vertex_normals[j][FaceAxis(call.mesh.vertex_normals[j]) + 1])

\* A cube off the origin whose face of normal +Z has u computed with s = -1,
\* and whose face of normal +X has u computed with s = +1.
C26_Witness ==
    /\ call.fn = "create_mesh"
    /\ call.scale = <<FixedOne, FixedOne, FixedOne>>
    /\ call.offset = <<FixedOne, FixedOne \div 2, -FixedOne>>
    /\ call.texture_scale = FixedOne
    /\ \E i, j \in DOMAIN call.mesh.vertex_normals :
          /\ call.mesh.vertex_normals[i] = <<0, 0, FixedOne>>
          /\ call.mesh.vertex_positions[i][1] = FixedOne + FixedOne \div 2
          /\ call.mesh.vertex_uv0[i][1] = 2 * (FixedOne \div 4 - (FixedOne + FixedOne \div 2))
          /\ call.mesh.vertex_normals[j] = <<FixedOne, 0, 0>>
          /\ call.mesh.vertex_positions[j][3] = -(FixedOne \div 2)
          /\ call.mesh.vertex_uv0[j][1] = 2 * (FixedOne \div 4 - FixedOne \div 2)

\* C27: every entry of a worker's city texture table is built from the raw
\* texture-cache entry of its own key, and the ground plane is drawn with the
\* textures loaded under the key "ground".
C27_TableBuiltFromOwnKeys ==
    \A w \in Workers :
        /\ \A i \in DOMAIN worker[w].city_textures :
              worker[w].city_textures[i] = CityTextureFields[i]
        /\ worker[w].ground_handle => worker[w].city_textures[6] = "ground"

\* What the code does: the first five entries come from their own keys, and
\* the ground entry, with which the ground plane is drawn, from "roof".
GroundBuiltFromRoof ==
    \A w \in Workers :
        /\ \A i \in DOMAIN worker[w].city_textures :
              worker[w].city_textures[i] =
                  IF i = 6 THEN "roof" ELSE CityTextureFields[i]
        /\ worker[w].ground_handle => worker[w].city_textures[6] = "roof"

\* C28: a worker never ends while it owns a live transient batch.  After the
\* delete step (in the second hold phase and at the top of the loop) its
\* transient vector is empty, and it leaves run only from the check at the
\* top of the loop, with the stop flag set and the vector empty: a stop seen
\* in the first hold phase still passes through the delete step.
C28_NoExitWithTransients ==
    [][\A w \in Workers :
          /\ worker[w].pc \in {"hold2", "sleep2", "looptop"}
                => worker[w].temporary_buildings = 0
          /\ (worker[w].pc # "done" /\ worker'[w].pc = "done")
                => /\ worker[w].pc = "looptop"
                   /\ stop_flag
                   /\ worker[w].temporary_buildings = 0]_vars

\* A worker that was generating a transient batch when the stop flag was set,
\* and a worker that was holding one, have both ended.
C28_Witness ==
    \E w, v \in Workers :
        /\ phaseAtStop[w] = "GeneratingTransient"
        /\ phaseAtStop[v] = "Holding"
        /\ worker[w].pc = "done"
        /\ worker[v].pc = "done"

\* C29: the stop flag, once set, stays set, so a worker spawned by a start
\* issued after a stop is spawned with the flag set; every such worker
\* generates its ground plane and its permanent batch and leaves at its first
\* check at the top of the loop, without generating a transient batch.
C29_StoppedWorkersExitAtFirstCheck ==
    \A w \in Workers :
        stopAtSpawn[w] =>
            /\ stop_flag
            /\ worker[w].pc \in {"run", "conv_get", "conv_add", "ground", "perm",
                                 "looptop", "done"}
            /\ worker[w].temporary_buildings = 0
            /\ worker[w].cycles = 0
            /\ worker[w].pc = "looptop"
                  => /\ worker[w].ground_handle
                     /\ worker[w].permanent_buildings = PermanentCount

\* The flag is false at construction, only stop writes it, and no step sets
\* it back to false.
StopFlagMonotonic ==
    [][/\ stop_flag => stop_flag'
       /\ stop_flag' # stop_flag => (ctl = "idle" /\ lastCall' = "stop")]_vars

\* What holds of a worker spawned with the flag set: it generates no transient
\* batch and completes no cycle, and it either goes through the ground plane
\* and the permanent batch to the top of the loop and ends there, or panics
\* before the ground plane, which it does only for a texture list that lacks
\* a key that new_from_map looks up.
StoppedWorkersExitUnlessFaulted ==
    \A w \in Workers :
        stopAtSpawn[w] =>
            /\ stop_flag
            /\ worker[w].pc \in {"run", "conv_get", "conv_add", "ground", "perm",
                                 "looptop", "done", "panicked"}
            /\ worker[w].temporary_buildings = 0
            /\ worker[w].cycles = 0
            /\ worker[w].pc = "looptop"
                  => /\ worker[w].ground_handle
                     /\ worker[w].permanent_buildings = PermanentCount
            /\ worker[w].pc = "panicked"
                  => \E f \in Range(CityTextureFields) :
                        LookupKey(f) \notin Range(params)

\* A worker spawned after a stop has ended at its first check.
StoppedWorkerDone ==
    \E w \in Workers : stopAtSpawn[w] /\ worker[w].pc = "done"

\* The steps of one worker.
WStep(w) ==
    \/ WLock(w) \/ WConvGet(w) \/ WConvMissing(w) \/ WConvAdd(w) \/ WGround(w)
    \/ WPermanent(w) \/ WLoopTop(w) \/ WGenerate(w) \/ WHoldCheck(w)
    \/ WSleep(w) \/ WDelete(w)

\* The thread that holds the guard has a step to take, without waiting for
\* any other thread.
HolderCanStep ==
    /\ \A w \in lockHolders \cap Workers : ENABLED WStep(w)
    /\ MainThread \in lockHolders => ENABLED InitInstall

\* The scheduling the threads have: a worker thread that can step does step,
\* a call of init that has asked for the lock goes on when the lock is free,
\* and a call of stop goes on through its joins.  Nothing obliges the caller
\* to call start or stop.
FairSpec ==
    /\ Spec
    /\ \A w \in Workers : WF_vars(WStep(w))
    /\ WF_vars(InitLock \/ InitInstall)
    /\ WF_vars(JoinOk \/ JoinPanic \/ StopReturn)

\* The lock is held only inside new_from_map (a worker) or inside init's
\* assignment (the caller), never by a thread in a sleep slice or in join;
\* the holder can always step on to the release; a thread that requests the
\* lock takes it as soon as it is free; and stop, while it waits in join for
\* a worker, waits for one that has ended, or can step, or waits for a lock
\* whose holder can step.
LockNeverBlocks ==
    /\ Cardinality(lockHolders) <= 1
    /\ \A w \in lockHolders \cap Workers : worker[w].pc \in {"conv_get", "conv_add"}
    /\ MainThread \in lockHolders => ctl = "init_install"
    /\ HolderCanStep
    /\ \A w \in Workers :
          worker[w].pc = "run" => (lockHolders = {} => ENABLED WLock(w))
    /\ (ctl = "init_load" /\ Len(output) = Len(params))
          => (lockHolders = {} => ENABLED InitLock)
    /\ (ctl = "join" /\ threads # <<>>) =>
          LET h == Head(threads)
          IN \/ ENABLED JoinOk
             \/ ENABLED JoinPanic
             \/ ENABLED WStep(h)
             \/ /\ worker[h].pc = "run"
                /\ lockHolders # {}
                /\ lockHolders \subseteq Workers \ {h}
    /\ (ctl = "join" /\ threads = <<>>) => ENABLED StopReturn

\* C30: no interleaving of start, the workers and stop deadlocks.  The lock
\* is never held by a thread that sleeps in a hold slice or waits in join,
\* so every worker that requests the lock gets past the request, init's
\* request for the lock gets past it, and a call of stop gets past its joins.
C30_NoDeadlock ==
    /\ []LockNeverBlocks
    /\ \A w \in Workers : (worker[w].pc = "run") ~> (worker[w].pc # "run")
    /\ (ctl = "init_load" /\ Len(output) = Len(params)) ~> (ctl # "init_load")
    /\ (ctl = "join") ~> (ctl # "join")

\* stop waits in join for a worker that waits for the lock, which another
\* worker holds.
C30_Witness ==
    /\ ctl = "join"
    /\ threads # <<>>
    /\ worker[Head(threads)].pc = "run"
    /\ lockHolders # {}
    /\ lockHolders \subseteq Workers \ {Head(threads)}

====
